---- MODULE Spec2Model ----
(***************************************************************************)
(* Model of ignite/services/network/launch.go:                             *)
(*   - Network.TriggerLaunch / Network.RevertLaunch (package network)      *)
(*   - Chain.Init / Chain.initGenesis / Chain.checkInitialGenesis          *)
(*     (package networkchain)                                              *)
(* Times are integers (seconds); the zero time.Time is ZeroTime.           *)
(* Strings that are computed (hashes) are sequences; "" is <<>>.           *)
(***************************************************************************)
EXTENDS Integers, Sequences, FiniteSets, TLC

\* ---------------------------------------------------------------- bounds
StartTime == 100        \* first clock reading of a behaviour
MaxTick == 2            \* the clock advances at most this many seconds
OffsetStep == 15        \* granularity of the protocol parameter durations
MaxOffsetSteps == 3     \* durations range over 0 .. MaxOffsetSteps * OffsetStep
MaxRequest == 80        \* requested launch times range over StartTime .. StartTime + MaxRequest
MaxLaunchID == 1        \* launch ids range over 1 .. MaxLaunchID
MaxGenTx == 2           \* a genesis holds 0 .. MaxGenTx gentxs
MaxContentID == 2       \* distinct genesis documents with the same gentx count

\* ------------------------------------------------------ program constants
MinLaunchTimeOffset == 30

ZeroTime == 0
NoFile == [exists |-> FALSE]

Range(s) == {s[i] : i \in 1..Len(s)}

\* error values: nil, or an error built by fmt.Errorf / errors.New / a collaborator
Nil == [kind |-> "nil", args |-> <<>>]
Err(k, a) == [kind |-> k, args |-> a]
Pending == [kind |-> "pending", args |-> <<>>]

Event(status, text, a) == [status |-> status, text |-> text, args |-> a]

Durations == {k * OffsetStep : k \in 0..MaxOffsetSteps}
\* launchtypes.Params.LaunchTimeRange as the chain validates it: 0 <= min <= max
LaunchTimeRanges == {r \in [MinLaunchTime : Durations, MaxLaunchTime : Durations] :
                        r.MinLaunchTime <= r.MaxLaunchTime}
RequestTimes == {ZeroTime} \cup (StartTime .. StartTime + MaxRequest)
LaunchIDs == 1..MaxLaunchID

VARIABLES
    \* ---- package network
    npc,            \* position of the running Network call ("idle" when none)
    clock,          \* n.clock
    launchID,       \* argument launchID
    requested,      \* argument launchTime as passed by the caller
    launchTime,     \* local launchTime (reassigned at line 48)
    params,         \* local params
    nowMin,         \* value returned by n.clock.Now() at line 38
    nowMax,         \* value returned by n.clock.Now() at line 39
    minLaunchTime,  \* local minLaunchTime
    maxLaunchTime,  \* local maxLaunchTime
    events,         \* events sent to n.ev during the call
    broadcasts,     \* messages handed to n.cosmos.BroadcastTx during the call
    nret,           \* value returned by the call
    ntrace,         \* steps executed by the call
    \* ---- package networkchain
    cpc,            \* position of the running Chain.Init call
    isInitialized,  \* c.isInitialized
    genesisURL,     \* c.genesisURL
    genesisHash,    \* c.genesisHash
    genesisFile,    \* file at c.chain.GenesisPath() (NoFile when absent)
    genesis,        \* local genesis of initGenesis
    hash,           \* local hash of initGenesis
    cret,           \* value returned by Init
    ctrace,         \* steps executed by the Init call
    prevEnd,        \* chain record, disk and fetched content when the previous Init call ended
    \* ---- both packages
    ctxDone         \* the ctx of the running call has been cancelled

nvars == <<npc, clock, launchID, requested, launchTime, params, nowMin, nowMax,
           minLaunchTime, maxLaunchTime, events, broadcasts, nret, ntrace>>
cvars == <<cpc, isInitialized, genesisURL, genesisHash, genesisFile,
           genesis, hash, cret, ctrace, prevEnd>>
vars == <<nvars, cvars, ctxDone>>

\* ================================================================ network
\* line 38
MinLaunchTimeNoMargin(now, p) == now + p.MinLaunchTime
ComputeMinLaunchTime(now, p) == now + p.MinLaunchTime + MinLaunchTimeOffset
\* line 39
ComputeMaxLaunchTime(now, p) == now + p.MaxLaunchTime

\* time.Time.Before / After
Before(t, u) == t < u
After(t, u) == t > u

\* lines 46-63: the resolved launch time, or the range error
CheckLaunchTimeExclusive(lt, min, max) ==
    IF lt = ZeroTime THEN [err |-> Nil, launchTime |-> min]
    ELSE IF lt <= min THEN [err |-> Err("lower than minimum", <<lt, min>>), launchTime |-> lt]
    ELSE IF lt >= max THEN [err |-> Err("bigger than maximum", <<lt, max>>), launchTime |-> lt]
    ELSE [err |-> Nil, launchTime |-> lt]
CheckLaunchTimeNoUpper(lt, min, max) ==
    IF lt = ZeroTime THEN [err |-> Nil, launchTime |-> min]
    ELSE IF Before(lt, min) THEN [err |-> Err("lower than minimum", <<lt, min>>), launchTime |-> lt]
    ELSE [err |-> Nil, launchTime |-> lt]
CheckLaunchTime(lt, min, max) ==
    IF lt = ZeroTime THEN [err |-> Nil, launchTime |-> min]
    ELSE IF Before(lt, min) THEN [err |-> Err("lower than minimum", <<lt, min>>), launchTime |-> lt]
    ELSE IF After(lt, max) THEN [err |-> Err("bigger than maximum", <<lt, max>>), launchTime |-> lt]
    ELSE [err |-> Nil, launchTime |-> lt]

\* launchtypes.NewMsgTriggerLaunch / NewMsgRevertLaunch
NewMsgTriggerLaunch(addr, id, t) == [type |-> "TriggerLaunch", address |-> addr, launchID |-> id, launchTime |-> t]
NewMsgRevertLaunch(addr, id) == [type |-> "RevertLaunch", address |-> addr, launchID |-> id]

NReturn(e) == /\ npc' = "idle"
              /\ nret' = e

\* the error of a collaborator that was handed ctx: ctx.Err() once ctx is cancelled
CtxErr(e) == IF ctxDone THEN Err("context canceled", <<>>) ELSE Err(e, <<>>)

\* the clock advances on its own
Tick == /\ clock < StartTime + MaxTick
        /\ clock' = clock + 1
        /\ UNCHANGED <<npc, launchID, requested, launchTime, params, nowMin, nowMax,
                       minLaunchTime, maxLaunchTime, events, broadcasts, nret, ntrace>>
        /\ UNCHANGED <<cvars, ctxDone>>

\* line 30-31: the call starts
TriggerLaunchStart ==
    /\ npc = "idle"
    /\ \E id \in LaunchIDs, t \in RequestTimes :
          /\ launchID' = id
          /\ requested' = t
          /\ launchTime' = t
    /\ params' = [MinLaunchTime |-> 0, MaxLaunchTime |-> 0]
    /\ nowMin' = ZeroTime /\ nowMax' = ZeroTime
    /\ minLaunchTime' = ZeroTime /\ maxLaunchTime' = ZeroTime
    /\ events' = <<Event("ongoing", "Launching chain", <<launchID'>>)>>
    /\ broadcasts' = <<>>
    /\ nret' = Pending
    /\ ntrace' = <<"start">>
    /\ npc' = "params"
    /\ UNCHANGED clock
    /\ ctxDone' = FALSE
    /\ UNCHANGED cvars

\* lines 21-27, 32-35, with a failed query tried again
LaunchParamsRetry ==
    /\ npc = "params"
    /\ ntrace' = Append(ntrace, "params")
    /\ \/ /\ ~ctxDone
          /\ \E p \in LaunchTimeRanges : params' = p
          /\ npc' = "min"
       \/ /\ npc' = "params"
          /\ UNCHANGED params
    /\ UNCHANGED <<clock, launchID, requested, launchTime, nowMin, nowMax,
                   minLaunchTime, maxLaunchTime, events, broadcasts, nret>>
    /\ UNCHANGED <<cvars, ctxDone>>
\* lines 21-27, 32-35
LaunchParams ==
    /\ npc = "params"
    /\ ntrace' = Append(ntrace, "params")
    /\ \/ /\ ~ctxDone
          /\ \E p \in LaunchTimeRanges : params' = p
          /\ npc' = "min"
          /\ UNCHANGED nret
       \/ /\ NReturn(CtxErr("params query failed"))
          /\ UNCHANGED params
    /\ UNCHANGED <<clock, launchID, requested, launchTime, nowMin, nowMax,
                   minLaunchTime, maxLaunchTime, events, broadcasts>>
    /\ UNCHANGED <<cvars, ctxDone>>

\* line 38
ReadMinLaunchTime ==
    /\ npc = "min"
    /\ nowMin' = clock
    /\ minLaunchTime' = ComputeMinLaunchTime(clock, params)
    /\ ntrace' = Append(ntrace, "min")
    /\ npc' = "max"
    /\ UNCHANGED <<clock, launchID, requested, launchTime, params, nowMax,
                   maxLaunchTime, events, broadcasts, nret>>
    /\ UNCHANGED <<cvars, ctxDone>>

\* line 39
ReadMaxLaunchTime ==
    /\ npc = "max"
    /\ nowMax' = clock
    /\ maxLaunchTime' = ComputeMaxLaunchTime(clock, params)
    /\ ntrace' = Append(ntrace, "max")
    /\ npc' = "address"
    /\ UNCHANGED <<clock, launchID, requested, launchTime, params, nowMin,
                   minLaunchTime, events, broadcasts, nret>>
    /\ UNCHANGED <<cvars, ctxDone>>

\* lines 41-44
TriggerAddress ==
    /\ npc = "address"
    /\ ntrace' = Append(ntrace, "address")
    /\ \/ /\ npc' = "validate"
          /\ UNCHANGED nret
       \/ NReturn(Err("address unavailable", <<>>))
    /\ UNCHANGED <<clock, launchID, requested, launchTime, params, nowMin, nowMax,
                   minLaunchTime, maxLaunchTime, events, broadcasts>>
    /\ UNCHANGED <<cvars, ctxDone>>

\* lines 46-63
ValidateLaunchTime ==
    /\ npc = "validate"
    /\ ntrace' = Append(ntrace, "validate")
    /\ LET r == CheckLaunchTime(launchTime, minLaunchTime, maxLaunchTime) IN
          /\ launchTime' = r.launchTime
          /\ IF r.err = Nil
                THEN npc' = "broadcast" /\ UNCHANGED nret
                ELSE NReturn(r.err)
    /\ UNCHANGED <<clock, launchID, requested, params, nowMin, nowMax,
                   minLaunchTime, maxLaunchTime, events, broadcasts>>
    /\ UNCHANGED <<cvars, ctxDone>>

\* lines 65-70
TriggerBroadcast ==
    /\ npc = "broadcast"
    /\ ntrace' = Append(ntrace, "broadcast")
    /\ events' = Append(events, Event("ongoing", "Setting launch time", <<>>))
    /\ broadcasts' = Append(broadcasts, NewMsgTriggerLaunch("spn", launchID, launchTime))
    /\ \/ /\ ~ctxDone
          /\ npc' = "decode"
          /\ UNCHANGED nret
       \/ NReturn(CtxErr("broadcast failed"))
    /\ UNCHANGED <<clock, launchID, requested, launchTime, params, nowMin, nowMax,
                   minLaunchTime, maxLaunchTime>>
    /\ UNCHANGED <<cvars, ctxDone>>

\* lines 72-80, with the done event sent before the response is decoded
TriggerDecodeEventFirst ==
    /\ npc = "decode"
    /\ ntrace' = Append(ntrace, "decode")
    /\ events' = Append(events, Event("done", "will be launched on", <<launchID, launchTime>>))
    /\ \/ NReturn(Nil)
       \/ NReturn(Err("decode failed", <<>>))
    /\ UNCHANGED <<clock, launchID, requested, launchTime, params, nowMin, nowMax,
                   minLaunchTime, maxLaunchTime, broadcasts>>
    /\ UNCHANGED <<cvars, ctxDone>>
\* lines 72-80
TriggerDecode ==
    /\ npc = "decode"
    /\ ntrace' = Append(ntrace, "decode")
    /\ \/ /\ events' = Append(events, Event("done", "will be launched on", <<launchID, launchTime>>))
          /\ NReturn(Nil)
       \/ /\ NReturn(Err("decode failed", <<>>))
          /\ UNCHANGED events
    /\ UNCHANGED <<clock, launchID, requested, launchTime, params, nowMin, nowMax,
                   minLaunchTime, maxLaunchTime, broadcasts>>
    /\ UNCHANGED <<cvars, ctxDone>>

\* lines 84-90
RevertLaunchStart ==
    /\ npc = "idle"
    /\ \E id \in LaunchIDs : launchID' = id
    /\ requested' = ZeroTime /\ launchTime' = ZeroTime
    /\ params' = [MinLaunchTime |-> 0, MaxLaunchTime |-> 0]
    /\ nowMin' = ZeroTime /\ nowMax' = ZeroTime
    /\ minLaunchTime' = ZeroTime /\ maxLaunchTime' = ZeroTime
    /\ events' = <<Event("ongoing", "Reverting launched chain", <<launchID'>>)>>
    /\ broadcasts' = <<>>
    /\ ntrace' = <<"revert", "address">>
    /\ \/ /\ npc' = "rbroadcast"
          /\ nret' = Pending
       \/ NReturn(Err("address unavailable", <<>>))
    /\ UNCHANGED clock
    /\ ctxDone' = FALSE
    /\ UNCHANGED cvars

\* lines 92-102
RevertBroadcast ==
    /\ npc = "rbroadcast"
    /\ ntrace' = Append(ntrace, "broadcast")
    /\ broadcasts' = Append(broadcasts, NewMsgRevertLaunch("spn", launchID))
    /\ \/ /\ ~ctxDone
          /\ events' = events \o <<Event("done", "launch was reverted", <<launchID>>),
                                   Event("ongoing", "Resetting the genesis time", <<>>)>>
          /\ npc' = "reset"
          /\ UNCHANGED nret
       \/ /\ NReturn(CtxErr("broadcast failed"))
          /\ UNCHANGED events
    /\ UNCHANGED <<clock, launchID, requested, launchTime, params, nowMin, nowMax,
                   minLaunchTime, maxLaunchTime>>
    /\ UNCHANGED <<cvars, ctxDone>>

\* lines 103-107, with the done event sent before the error is looked at
RevertResetEventFirst ==
    /\ npc = "reset"
    /\ ntrace' = Append(ntrace, "reset")
    /\ events' = Append(events, Event("done", "Genesis time was reset", <<>>))
    /\ \/ NReturn(Nil)
       \/ NReturn(Err("reset genesis time failed", <<>>))
    /\ UNCHANGED <<clock, launchID, requested, launchTime, params, nowMin, nowMax,
                   minLaunchTime, maxLaunchTime, broadcasts>>
    /\ UNCHANGED <<cvars, ctxDone>>
\* lines 103-107
RevertResetGenesisTime ==
    /\ npc = "reset"
    /\ ntrace' = Append(ntrace, "reset")
    /\ \/ /\ events' = Append(events, Event("done", "Genesis time was reset", <<>>))
          /\ NReturn(Nil)
       \/ /\ NReturn(Err("reset genesis time failed", <<>>))
          /\ UNCHANGED events
    /\ UNCHANGED <<clock, launchID, requested, launchTime, params, nowMin, nowMax,
                   minLaunchTime, maxLaunchTime, broadcasts>>
    /\ UNCHANGED <<cvars, ctxDone>>

NextNetwork ==
    \/ Tick
    \/ TriggerLaunchStart
    \/ LaunchParams
    \/ ReadMinLaunchTime
    \/ ReadMaxLaunchTime
    \/ TriggerAddress
    \/ ValidateLaunchTime
    \/ TriggerBroadcast
    \/ TriggerDecode
    \/ RevertLaunchStart
    \/ RevertBroadcast
    \/ RevertResetGenesisTime

\* ================================================================== chain
\* a genesis document: its bytes are identified by (id, gentx, wellFormed)
Contents == {c \in [exists : {TRUE}, id : 1..MaxContentID, gentx : 0..MaxGenTx, wellFormed : BOOLEAN] :
                ~c.wellFormed => c.gentx = 0}

\* cosmosutil.GenesisAndHashFromURL: the hash is computed from the fetched bytes
Hash(c) == <<c.id, c.gentx, IF c.wellFormed THEN 1 ELSE 0>>
\* cosmosutil.ParseChainGenesis(...).GenTxCount()
GenTxCount(c) == c.gentx

URLs == {"", "url"}

\* lines 183-187: the error, and the value of c.genesisHash afterwards
HashCheckNoCompare(recorded, h, url) ==
    IF recorded = <<>> THEN [err |-> Nil, genesisHash |-> h]
    ELSE [err |-> Nil, genesisHash |-> recorded]
HashCheckNoAdopt(recorded, h, url) ==
    IF recorded = <<>> THEN [err |-> Nil, genesisHash |-> recorded]
    ELSE IF h # recorded THEN [err |-> Err("genesis from URL is invalid", <<url, recorded, h>>),
                               genesisHash |-> recorded]
    ELSE [err |-> Nil, genesisHash |-> recorded]
HashCheckAdoptOnMismatch(recorded, h, url) ==
    [err |-> Nil, genesisHash |-> h]
HashCheck(recorded, h, url) ==
    IF recorded = <<>> THEN [err |-> Nil, genesisHash |-> h]
    ELSE IF h # recorded THEN [err |-> Err("genesis from URL is invalid", <<url, recorded, h>>),
                               genesisHash |-> recorded]
    ELSE [err |-> Nil, genesisHash |-> recorded]

\* lines 237-239
GenTxCheckNever(count) == Nil
GenTxCheckOffByOne(count) ==
    IF count > 1 THEN Err("the initial genesis for the chain should not contain gentx", <<>>)
    ELSE Nil
GenTxCheck(count) ==
    IF count > 0 THEN Err("the initial genesis for the chain should not contain gentx", <<>>)
    ELSE Nil

CReturn(e) == /\ cpc' = "idle"
              /\ cret' = e

\* a step of Init that only calls a collaborator: it succeeds or returns the error
CStep(at, name, next, e) ==
    /\ cpc = at
    /\ ctrace' = Append(ctrace, name)
    /\ \/ /\ cpc' = next
          /\ UNCHANGED cret
       \/ CReturn(Err(e, <<>>))

\* a step of Init that calls a collaborator with ctx
CtxStep(at, name, next, e) ==
    /\ cpc = at
    /\ ctrace' = Append(ctrace, name)
    /\ \/ /\ ~ctxDone
          /\ cpc' = next
          /\ UNCHANGED cret
       \/ CReturn(CtxErr(e))

\* lines 125-129
InitStart ==
    /\ cpc = "idle"
    /\ prevEnd' = [ret |-> cret, isInitialized |-> isInitialized, genesisHash |-> genesisHash,
                   genesisFile |-> genesisFile, genesis |-> genesis]
    /\ ctrace' = <<"home">>
    /\ genesis' = NoFile
    /\ hash' = <<>>
    /\ \/ /\ cpc' = "rmhome"
          /\ cret' = Pending
       \/ CReturn(Err("home failed", <<>>))
    /\ UNCHANGED <<isInitialized, genesisURL, genesisHash, genesisFile>>
    /\ ctxDone' = FALSE
    /\ UNCHANGED nvars

\* lines 131-134
RemoveHome ==
    /\ cpc = "rmhome"
    /\ ctrace' = Append(ctrace, "rmhome")
    /\ \/ /\ genesisFile' = NoFile
          /\ cpc' = "build"
          /\ UNCHANGED cret
       \/ /\ genesisFile' \in {genesisFile, NoFile}
          /\ CReturn(Err("remove home failed", <<>>))
    /\ UNCHANGED <<isInitialized, genesisURL, genesisHash, genesis, hash, prevEnd>>
    /\ UNCHANGED <<nvars, ctxDone>>

\* lines 136-139, with a build that is skipped once the chain was initialized
BuildSkippedWhenInitialized ==
    /\ cpc = "build"
    /\ IF isInitialized
          THEN /\ ctrace' = ctrace
               /\ cpc' = "init"
               /\ UNCHANGED cret
          ELSE /\ ctrace' = Append(ctrace, "build")
               /\ \/ /\ cpc' = "init"
                     /\ UNCHANGED cret
                  \/ CReturn(Err("build failed", <<>>))
    /\ UNCHANGED <<isInitialized, genesisURL, genesisHash, genesisFile, genesis, hash, prevEnd>>
    /\ UNCHANGED <<nvars, ctxDone>>
\* lines 136-139
Build ==
    /\ CtxStep("build", "build", "init", "build failed")
    /\ UNCHANGED <<isInitialized, genesisURL, genesisHash, genesisFile, genesis, hash, prevEnd>>
    /\ UNCHANGED <<nvars, ctxDone>>

\* lines 141-147: the init command writes the default genesis
ChainInit ==
    /\ cpc = "init"
    /\ ctrace' = Append(ctrace, "init")
    /\ \/ /\ ~ctxDone
          /\ \E c \in Contents : genesisFile' = c
          /\ cpc' = "genesispath"
          /\ UNCHANGED cret
       \/ /\ CReturn(CtxErr("init failed"))
          /\ UNCHANGED genesisFile
    /\ UNCHANGED <<isInitialized, genesisURL, genesisHash, genesis, hash, prevEnd>>
    /\ UNCHANGED <<nvars, ctxDone>>

\* lines 160-166
InitGenesisPath ==
    /\ CStep("genesispath", "genesispath", "rmgenesis", "genesis path failed")
    /\ UNCHANGED <<isInitialized, genesisURL, genesisHash, genesisFile, genesis, hash, prevEnd>>
    /\ UNCHANGED <<nvars, ctxDone>>

\* lines 168-171, then the branch of line 175
RemoveGenesis ==
    /\ cpc = "rmgenesis"
    /\ ctrace' = Append(ctrace, "rmgenesis")
    /\ \/ /\ genesisFile' = NoFile
          /\ cpc' = IF genesisURL # "" THEN "fetch" ELSE "commands"
          /\ UNCHANGED cret
       \/ /\ CReturn(Err("remove genesis failed", <<>>))
          /\ UNCHANGED genesisFile
    /\ UNCHANGED <<isInitialized, genesisURL, genesisHash, genesis, hash, prevEnd>>
    /\ UNCHANGED <<nvars, ctxDone>>

\* lines 175-187
FetchGenesis ==
    /\ cpc = "fetch"
    /\ ctrace' = Append(ctrace, "fetch")
    /\ \/ \E c \in Contents :
             LET r == HashCheck(genesisHash, Hash(c), genesisURL) IN
                /\ ~ctxDone
                /\ genesis' = c
                /\ hash' = Hash(c)
                /\ genesisHash' = r.genesisHash
                /\ IF r.err = Nil
                      THEN cpc' = "write" /\ UNCHANGED cret
                      ELSE CReturn(r.err)
       \/ /\ CReturn(CtxErr("fetch failed"))
          /\ UNCHANGED <<genesis, hash, genesisHash>>
    /\ UNCHANGED <<isInitialized, genesisURL, genesisFile, prevEnd>>
    /\ UNCHANGED <<nvars, ctxDone>>

\* lines 189-192
WriteGenesis ==
    /\ cpc = "write"
    /\ ctrace' = Append(ctrace, "write")
    /\ \/ /\ genesisFile' = genesis
          /\ cpc' = "checkcommands"
          /\ UNCHANGED cret
       \/ /\ CReturn(Err("write failed", <<>>))
          /\ UNCHANGED genesisFile
    /\ UNCHANGED <<isInitialized, genesisURL, genesisHash, genesis, hash, prevEnd>>
    /\ UNCHANGED <<nvars, ctxDone>>

\* lines 194-198
DefaultCommands ==
    /\ CtxStep("commands", "commands", "cmdinit", "commands failed")
    /\ UNCHANGED <<isInitialized, genesisURL, genesisHash, genesisFile, genesis, hash, prevEnd>>
    /\ UNCHANGED <<nvars, ctxDone>>

\* lines 200-203: the init CLI command generates the default genesis
DefaultCmdInit ==
    /\ cpc = "cmdinit"
    /\ ctrace' = Append(ctrace, "cmdinit")
    /\ \/ /\ ~ctxDone
          /\ \E c \in Contents : genesisFile' = c
          /\ cpc' = "checkcommands"
          /\ UNCHANGED cret
       \/ /\ CReturn(CtxErr("cmd init failed"))
          /\ UNCHANGED genesisFile
    /\ UNCHANGED <<isInitialized, genesisURL, genesisHash, genesis, hash, prevEnd>>
    /\ UNCHANGED <<nvars, ctxDone>>

\* lines 217-222
CheckCommands ==
    /\ CtxStep("checkcommands", "checkcommands", "checkpath", "commands failed")
    /\ UNCHANGED <<isInitialized, genesisURL, genesisHash, genesisFile, genesis, hash, prevEnd>>
    /\ UNCHANGED <<nvars, ctxDone>>

\* lines 224-228
CheckGenesisPath ==
    /\ CStep("checkpath", "checkpath", "read", "genesis path failed")
    /\ UNCHANGED <<isInitialized, genesisURL, genesisHash, genesisFile, genesis, hash, prevEnd>>
    /\ UNCHANGED <<nvars, ctxDone>>

\* lines 229-241, with the parse and the gentx check left out
ReadGenesisFileUnchecked ==
    /\ cpc = "read"
    /\ ctrace' = Append(ctrace, "read")
    /\ \/ /\ genesisFile # NoFile
          /\ cpc' = "validategenesis"
          /\ UNCHANGED cret
       \/ CReturn(Err("read failed", <<>>))
    /\ UNCHANGED <<isInitialized, genesisURL, genesisHash, genesisFile, genesis, hash, prevEnd>>
    /\ UNCHANGED <<nvars, ctxDone>>
\* lines 229-232: a missing file cannot be read
ReadGenesisFile ==
    /\ cpc = "read"
    /\ ctrace' = Append(ctrace, "read")
    /\ \/ /\ genesisFile # NoFile
          /\ cpc' = "parse"
          /\ UNCHANGED cret
       \/ CReturn(Err("read failed", <<>>))
    /\ UNCHANGED <<isInitialized, genesisURL, genesisHash, genesisFile, genesis, hash, prevEnd>>
    /\ UNCHANGED <<nvars, ctxDone>>

\* lines 233-239
ParseAndCheckGenTx ==
    /\ cpc = "parse"
    /\ ctrace' = Append(ctrace, "parse")
    /\ IF ~genesisFile.wellFormed
          THEN CReturn(Err("parse failed", <<>>))
          ELSE LET e == GenTxCheck(GenTxCount(genesisFile)) IN
                  IF e = Nil
                     THEN cpc' = "validategenesis" /\ UNCHANGED cret
                     ELSE CReturn(e)
    /\ UNCHANGED <<isInitialized, genesisURL, genesisHash, genesisFile, genesis, hash, prevEnd>>
    /\ UNCHANGED <<nvars, ctxDone>>

\* line 241, then lines 208-213 and 150-156
ValidateGenesis ==
    /\ cpc = "validategenesis"
    /\ ctrace' = Append(ctrace, "validategenesis")
    /\ \/ /\ ~ctxDone
          /\ isInitialized' = TRUE
          /\ CReturn(Nil)
       \/ /\ CReturn(CtxErr("validate-genesis failed"))
          /\ UNCHANGED isInitialized
    /\ UNCHANGED <<genesisURL, genesisHash, genesisFile, genesis, hash, prevEnd>>
    /\ UNCHANGED <<nvars, ctxDone>>

NextChain ==
    \/ InitStart
    \/ RemoveHome
    \/ Build
    \/ ChainInit
    \/ InitGenesisPath
    \/ RemoveGenesis
    \/ FetchGenesis
    \/ WriteGenesis
    \/ DefaultCommands
    \/ DefaultCmdInit
    \/ CheckCommands
    \/ CheckGenesisPath
    \/ ReadGenesisFile
    \/ ParseAndCheckGenTx
    \/ ValidateGenesis

\* ========================================================= specifications
Init ==
    /\ npc = "idle"
    /\ clock = StartTime
    /\ launchID = 1
    /\ requested = ZeroTime /\ launchTime = ZeroTime
    /\ params = [MinLaunchTime |-> 0, MaxLaunchTime |-> 0]
    /\ nowMin = ZeroTime /\ nowMax = ZeroTime
    /\ minLaunchTime = ZeroTime /\ maxLaunchTime = ZeroTime
    /\ events = <<>>
    /\ broadcasts = <<>>
    /\ nret = Pending
    /\ ntrace = <<>>
    /\ cpc = "idle"
    /\ isInitialized = FALSE
    /\ genesisURL \in URLs
    /\ genesisHash \in {<<>>} \cup {Hash(c) : c \in Contents}
    /\ genesisFile = NoFile
    /\ genesis = NoFile
    /\ hash = <<>>
    /\ cret = Pending
    /\ ctrace = <<>>
    /\ prevEnd = [ret |-> Pending, isInitialized |-> FALSE, genesisHash |-> <<>>,
                  genesisFile |-> NoFile, genesis |-> NoFile]
    /\ ctxDone = FALSE

\* the caller cancels the ctx it passed to the running call
Cancel ==
    /\ npc # "idle" \/ cpc # "idle"
    /\ ~ctxDone
    /\ ctxDone' = TRUE
    /\ UNCHANGED <<nvars, cvars>>

\* one thread of control: a call starts when no other call runs
Next ==
    \/ Tick
    \/ cpc = "idle" /\ TriggerLaunchStart
    \/ cpc = "idle" /\ RevertLaunchStart
    \/ npc = "idle" /\ InitStart
    \/ LaunchParams
    \/ ReadMinLaunchTime
    \/ ReadMaxLaunchTime
    \/ TriggerAddress
    \/ ValidateLaunchTime
    \/ TriggerBroadcast
    \/ TriggerDecode
    \/ RevertBroadcast
    \/ RevertResetGenesisTime
    \/ RemoveHome
    \/ Build
    \/ ChainInit
    \/ InitGenesisPath
    \/ RemoveGenesis
    \/ FetchGenesis
    \/ WriteGenesis
    \/ DefaultCommands
    \/ DefaultCmdInit
    \/ CheckCommands
    \/ CheckGenesisPath
    \/ ReadGenesisFile
    \/ ParseAndCheckGenTx
    \/ ValidateGenesis
    \/ Cancel

Spec == Init /\ [][Next]_vars
\* the coordinator calls alone (Network.TriggerLaunch, Network.RevertLaunch);
\* they read and write nothing of the chain record, which is held fixed
InitNetwork == Init /\ genesisURL = "" /\ genesisHash = <<>>
SpecNetwork == InitNetwork /\ [][NextNetwork]_vars
\* the bootstrapper calls alone (Chain.Init)
SpecChain == Init /\ [][NextChain]_vars

\* the behaviours of SpecNetwork and of SpecChain together: a behaviour uses the
\* coordinator or the bootstrapper, never both
NetworkOnly == ctrace = <<>> /\ genesisURL = "" /\ genesisHash = <<>>
ChainOnly == ntrace = <<>> /\ clock = StartTime
NextOne ==
    \/ NetworkOnly /\ Tick
    \/ NetworkOnly /\ TriggerLaunchStart
    \/ NetworkOnly /\ RevertLaunchStart
    \/ ChainOnly /\ InitStart
    \/ LaunchParams
    \/ ReadMinLaunchTime
    \/ ReadMaxLaunchTime
    \/ TriggerAddress
    \/ ValidateLaunchTime
    \/ TriggerBroadcast
    \/ TriggerDecode
    \/ RevertBroadcast
    \/ RevertResetGenesisTime
    \/ RemoveHome
    \/ Build
    \/ ChainInit
    \/ InitGenesisPath
    \/ RemoveGenesis
    \/ FetchGenesis
    \/ WriteGenesis
    \/ DefaultCommands
    \/ DefaultCmdInit
    \/ CheckCommands
    \/ CheckGenesisPath
    \/ ReadGenesisFile
    \/ ParseAndCheckGenTx
    \/ ValidateGenesis
SpecOne == Init /\ [][NextOne]_vars
\* the same with a caller that may cancel the ctx of the running call
NextCancel == NextOne \/ Cancel
SpecCancel == Init /\ [][NextCancel]_vars

\* ================================================================= claims
RangeErrors == {"lower than minimum", "bigger than maximum"}
\* the running (or last) TriggerLaunch call has executed lines 46-63
Validated == "validate" \in Range(ntrace)
\* the last Init call has returned nil
InitSucceeded == cpc = "idle" /\ cret = Nil
\* the last Init call has returned an error
InitFailed == cpc = "idle" /\ cret # Nil /\ cret # Pending
GentxError == Err("the initial genesis for the chain should not contain gentx", <<>>)

\* C1 (as amended): for a requested non-zero launch time T, T < min is rejected
\* with the error citing min; T > max with T >= min is rejected with the error
\* citing max; min <= T <= max (bounds included) is accepted and T itself is the
\* time of every trigger message handed to BroadcastTx.
C1_InclusiveRange ==
    (requested # ZeroTime /\ Validated) =>
        /\ requested < minLaunchTime =>
              /\ npc = "idle"
              /\ nret = Err("lower than minimum", <<requested, minLaunchTime>>)
        /\ (requested > maxLaunchTime /\ requested >= minLaunchTime) =>
              /\ npc = "idle"
              /\ nret = Err("bigger than maximum", <<requested, maxLaunchTime>>)
        /\ (minLaunchTime <= requested /\ requested <= maxLaunchTime) =>
              /\ nret.kind \notin RangeErrors
              /\ npc = "broadcast" \/ "broadcast" \in Range(ntrace)
              /\ launchTime = requested
              /\ \A i \in 1..Len(broadcasts) : broadcasts[i].launchTime = requested

\* C1 as stated: every T > max is rejected with the error citing max
C1_Original ==
    (requested # ZeroTime /\ Validated) =>
        /\ requested < minLaunchTime =>
              nret = Err("lower than minimum", <<requested, minLaunchTime>>)
        /\ requested > maxLaunchTime =>
              nret = Err("bigger than maximum", <<requested, maxLaunchTime>>)
        /\ (minLaunchTime <= requested /\ requested <= maxLaunchTime) =>
              /\ launchTime = requested
              /\ \A i \in 1..Len(broadcasts) : broadcasts[i].launchTime = requested

\* a request exactly at the upper bound went into a broadcast message
C1_Witness ==
    /\ requested # ZeroTime
    /\ requested = maxLaunchTime
    /\ minLaunchTime < maxLaunchTime
    /\ broadcasts # <<>>
    /\ broadcasts[1].launchTime = requested

\* C2: with no requested time the resolved launch time is the window minimum,
\* the clock reading of line 38 plus the minimum duration plus 30s; no range
\* error is returned, and the trigger message and the "will be launched" event
\* carry that time.
C2_DefaultIsMinimum ==
    (requested = ZeroTime /\ Validated) =>
        /\ launchTime = nowMin + params.MinLaunchTime + MinLaunchTimeOffset
        /\ launchTime = minLaunchTime
        /\ nret.kind \notin RangeErrors
        /\ npc = "broadcast" \/ "broadcast" \in Range(ntrace)
        /\ \A i \in 1..Len(broadcasts) : broadcasts[i].launchTime = launchTime
        /\ \A i \in 1..Len(events) :
              events[i].text = "will be launched on" => events[i].args = <<launchID, launchTime>>

\* a defaulted launch went through to the "will be launched" event
C2_Witness ==
    /\ requested = ZeroTime
    /\ Validated
    /\ nret = Nil
    /\ \E i \in 1..Len(events) : events[i].text = "will be launched on"

\* C3: a requested time outside [minLaunchTime, maxLaunchTime] makes the call
\* return a range error; BroadcastTx is never invoked and neither the "Setting
\* launch time" nor the "will be launched" event is sent.
C3_OutOfRangeNoBroadcast ==
    (requested # ZeroTime /\ Validated /\ (requested < minLaunchTime \/ requested > maxLaunchTime)) =>
        /\ npc = "idle"
        /\ nret.kind \in RangeErrors
        /\ broadcasts = <<>>
        /\ "broadcast" \notin Range(ntrace)
        /\ \A i \in 1..Len(events) : events[i].text \notin {"Setting launch time", "will be launched on"}

\* a request above the maximum (and not below the minimum) was validated
C3_Witness ==
    /\ requested # ZeroTime
    /\ Validated
    /\ requested > maxLaunchTime
    /\ requested >= minLaunchTime
    /\ npc = "idle"

\* C4 as stated: every Init call that fails leaves isInitialized false, and
\* isInitialized is true only if the most recent Init call succeeded.
C4_Original ==
    /\ InitFailed => ~isInitialized
    /\ (cpc = "idle" /\ isInitialized) => cret = Nil

\* C5: with a remote source and a recorded non-empty hash, a fetched hash that
\* differs makes the call fail with the mismatch error naming the URL, the
\* expected and the actual hash; genesisHash is unchanged and the fetched
\* content is not written to the genesis path.
C5_MismatchRejected ==
    ("fetch" \in Range(ctrace) /\ hash # <<>> /\ prevEnd.genesisHash # <<>>
        /\ hash # prevEnd.genesisHash) =>
        /\ cpc = "idle"
        /\ cret = Err("genesis from URL is invalid", <<genesisURL, prevEnd.genesisHash, hash>>)
        /\ genesisHash = prevEnd.genesisHash
        /\ "write" \notin Range(ctrace)
        /\ genesisFile # genesis

\* a fetch returned a hash other than the recorded one
C5_Witness ==
    /\ "fetch" \in Range(ctrace)
    /\ hash # <<>>
    /\ prevEnd.genesisHash # <<>>
    /\ hash # prevEnd.genesisHash
    /\ cret.kind = "genesis from URL is invalid"

\* C6: with a remote source and no recorded hash, a successful acquisition leaves
\* genesisHash equal to the fetched hash and the genesis file equal to the
\* fetched content.
C6_TrustOnFirstUse ==
    (InitSucceeded /\ genesisURL # "" /\ prevEnd.genesisHash = <<>>) =>
        /\ "fetch" \in Range(ctrace)
        /\ genesis # NoFile
        /\ hash = Hash(genesis)
        /\ genesisHash = hash
        /\ genesisFile = genesis

\* an Init with a remote source and no recorded hash succeeded
C6_Witness ==
    /\ InitSucceeded
    /\ genesisURL # ""
    /\ prevEnd.genesisHash = <<>>
    /\ genesisHash # <<>>

\* a genesis file with N >= 1 gentxs reached the gentx check of line 237
GentxFound ==
    /\ "parse" \in Range(ctrace)
    /\ genesisFile # NoFile
    /\ genesisFile.wellFormed
    /\ GenTxCount(genesisFile) >= 1

C8_SuccessMeansValidGenesis ==
    InitSucceeded =>
        /\ isInitialized
        /\ genesisFile # NoFile
        /\ genesisFile.wellFormed
        /\ GenTxCount(genesisFile) = 0
        /\ {"read", "parse", "validategenesis"} \subseteq Range(ctrace)
        /\ ctrace[Len(ctrace)] = "validategenesis"
        /\ genesisURL # "" => Hash(genesisFile) = genesisHash

\* an Init with a remote source and a previously recorded hash succeeded
C8_Witness ==
    /\ InitSucceeded
    /\ genesisURL # ""
    /\ prevEnd.genesisHash # <<>>
    /\ genesisFile # NoFile

\* the running (or last) Init call follows a successful one and fetched the
\* same remote genesis as that one
SecondInitSameRemote ==
    /\ prevEnd.ret = Nil
    /\ genesisURL # ""
    /\ genesis # NoFile
    /\ genesis = prevEnd.genesis

\* C9: an Init that follows a successful Init and fetches the same remote
\* genesis is not rejected by the hash check, the parse or the gentx check; when
\* its collaborators succeed it has run the home deletion, build, local init and
\* genesis acquisition again and ends with isInitialized true and the same
\* genesisHash and genesis file as the first call.
C9_InitIdempotent ==
    /\ SecondInitSameRemote =>
          cret.kind \notin {"genesis from URL is invalid", "parse failed", GentxError.kind}
    /\ (SecondInitSameRemote /\ InitSucceeded) =>
          /\ isInitialized
          /\ prevEnd.isInitialized
          /\ genesisHash = prevEnd.genesisHash
          /\ genesisFile = prevEnd.genesisFile
          /\ {"rmhome", "build", "init", "rmgenesis", "fetch", "write"} \subseteq Range(ctrace)

\* a second Init over the same remote genesis succeeded
C9_Witness ==
    /\ SecondInitSameRemote
    /\ InitSucceeded

\* C10 as stated: both bounds of the window come from one clock reading, so
\* max - min = maxOffset - minOffset - 30s, and min <= max whenever
\* minOffset + 30s <= maxOffset.
C10_Original ==
    "max" \in Range(ntrace) =>
        /\ minLaunchTime = nowMin + params.MinLaunchTime + MinLaunchTimeOffset
        /\ maxLaunchTime = nowMax + params.MaxLaunchTime
        /\ maxLaunchTime - minLaunchTime
              = params.MaxLaunchTime - params.MinLaunchTime - MinLaunchTimeOffset
        /\ params.MinLaunchTime + MinLaunchTimeOffset <= params.MaxLaunchTime
              => minLaunchTime <= maxLaunchTime

\* the running (or last) Network call is a TriggerLaunch / a RevertLaunch
IsTrigger == ntrace # <<>> /\ ntrace[1] = "start"
IsRevert == ntrace # <<>> /\ ntrace[1] = "revert"
\* an event with this text was sent during the call
Sent(text) == \E i \in 1..Len(events) : events[i].text = text

\* C11: TriggerLaunch returns nil exactly when it has sent the "will be
\* launched" done event, which carries the launch id and the resolved launch
\* time and follows a broadcast and a decode; a decode failure after a
\* successful broadcast returns the error and sends no such event.
C11_DoneIffDecoded ==
    IsTrigger =>
        /\ (npc = "idle" /\ nret = Nil) <=> Sent("will be launched on")
        /\ \A i \in 1..Len(events) :
              events[i].text = "will be launched on" =>
                 /\ events[i] = Event("done", "will be launched on", <<launchID, launchTime>>)
                 /\ i = Len(events)
        /\ Sent("will be launched on") =>
              /\ ntrace[Len(ntrace)] = "decode"
              /\ "broadcast" \in Range(ntrace)
              /\ broadcasts = <<NewMsgTriggerLaunch("spn", launchID, launchTime)>>
        /\ nret.kind = "decode failed" =>
              /\ npc = "idle"
              /\ "broadcast" \in Range(ntrace)
              /\ ~Sent("will be launched on")

\* a broadcast succeeded and the decode of its response failed
C11_Witness ==
    /\ IsTrigger
    /\ nret.kind = "decode failed"
    /\ Len(broadcasts) = 1

\* C12: in RevertLaunch ResetGenesisTime runs only after the revert message was
\* broadcast and the "reverted" event sent; when it fails the call returns that
\* error, "Genesis time was reset" is not sent and no further message is
\* broadcast.
C12_ResetAfterRevert ==
    IsRevert =>
        /\ (npc = "reset" \/ "reset" \in Range(ntrace)) =>
              /\ "broadcast" \in Range(ntrace)
              /\ broadcasts = <<NewMsgRevertLaunch("spn", launchID)>>
              /\ Sent("launch was reverted")
        /\ nret.kind = "broadcast failed" =>
              /\ "reset" \notin Range(ntrace)
              /\ ~Sent("launch was reverted")
        /\ nret.kind = "reset genesis time failed" =>
              /\ npc = "idle"
              /\ ~Sent("Genesis time was reset")
              /\ Len(broadcasts) = 1
        /\ Sent("Genesis time was reset") => (npc = "idle" /\ nret = Nil)

\* the revert was broadcast and ResetGenesisTime failed
C12_Witness ==
    /\ IsRevert
    /\ nret.kind = "reset genesis time failed"
    /\ Sent("launch was reverted")

\* C13 as stated: with no genesis URL the acquisition fetches nothing and runs
\* no further generating step before the genesis file is read for validation.
C13_Original ==
    (genesisURL = "" /\ "read" \in Range(ctrace)) =>
        /\ "fetch" \notin Range(ctrace)
        /\ "cmdinit" \notin Range(ctrace)

\* the running (or last) Init call follows a successful Init with a remote
\* source and fetched a genesis whose hash is not the recorded one
MismatchAfterSuccess ==
    /\ prevEnd.ret = Nil
    /\ genesisURL # ""
    /\ "fetch" \in Range(ctrace)
    /\ hash # <<>>
    /\ hash # prevEnd.genesisHash

\* C14 (as amended): after a successful remote acquisition, an Init whose
\* fetched hash does not match the recorded hash fails with the mismatch error
\* and never writes the fetched content; the genesis file that was on disk
\* before the call is not kept either: the call has deleted it, and no genesis
\* file is on disk afterwards.
C14_MismatchLeavesNoFile ==
    MismatchAfterSuccess =>
        /\ cpc = "idle"
        /\ cret = Err("genesis from URL is invalid", <<genesisURL, prevEnd.genesisHash, hash>>)
        /\ "write" \notin Range(ctrace)
        /\ {"rmhome", "rmgenesis"} \subseteq Range(ctrace)
        /\ prevEnd.genesisFile # NoFile
        /\ genesisFile = NoFile
        /\ genesisHash = prevEnd.genesisHash

\* C14 as stated: the genesis file of before the failing call is still on disk
C14_Original ==
    MismatchAfterSuccess =>
        /\ cret.kind = "genesis from URL is invalid"
        /\ genesisFile = prevEnd.genesisFile

\* a mismatching Init after a successful one has returned
C14_Witness ==
    /\ MismatchAfterSuccess
    /\ cpc = "idle"
    /\ prevEnd.isInitialized

\* C18: genesisHash is write-once: a step taken while it is non-empty leaves
\* it as it is.
C18_HashWriteOnce == [][genesisHash # <<>> => genesisHash' = genesisHash]_vars

\* a recorded hash survived the fetch of a genesis with another hash
C18_Witness ==
    /\ InitFailed
    /\ genesisHash # <<>>
    /\ genesisHash = prevEnd.genesisHash
    /\ hash # <<>>
    /\ hash # genesisHash

\* C19 (as amended): a failed Init leaves genesisHash as it was before the
\* call, except when it was empty and the remote fetch succeeded: then the
\* fetched hash is recorded at once and stays recorded although the write, the
\* parse, the gentx check or validate-genesis failed afterwards.
C19_FailedInitHash ==
    InitFailed =>
        IF prevEnd.genesisHash = <<>> /\ hash # <<>>
           THEN genesisHash = hash /\ "fetch" \in Range(ctrace)
           ELSE genesisHash = prevEnd.genesisHash

\* C19 as stated: a failed Init leaves genesisHash as it was before the call
C19_Original == InitFailed => genesisHash = prevEnd.genesisHash

\* the hash of a genesis rejected for its gentxs was recorded
C19_Witness ==
    /\ InitFailed
    /\ prevEnd.genesisHash = <<>>
    /\ cret = GentxError
    /\ genesisHash = hash
    /\ hash # <<>>

\* C20 (as amended): a trigger message built from a requested time T carries T
\* with minLaunchTime <= T <= maxLaunchTime of that call; one built with no
\* requested time carries minLaunchTime, which is within the window when
\* minOffset + 30s <= maxOffset and may lie above maxLaunchTime otherwise.
C20_BroadcastInWindow ==
    IsTrigger =>
        \A i \in 1..Len(broadcasts) :
            LET T == broadcasts[i].launchTime IN
               IF requested # ZeroTime
                  THEN /\ T = requested
                       /\ minLaunchTime <= T
                       /\ T <= maxLaunchTime
                  ELSE /\ T = minLaunchTime
                       /\ params.MinLaunchTime + MinLaunchTimeOffset <= params.MaxLaunchTime
                             => T <= maxLaunchTime

\* C20 as stated: every broadcast trigger message lies within the window
C20_Original ==
    IsTrigger =>
        \A i \in 1..Len(broadcasts) :
            /\ minLaunchTime <= broadcasts[i].launchTime
            /\ broadcasts[i].launchTime <= maxLaunchTime

\* a defaulted launch time within a well-formed window was broadcast
C20_Witness ==
    /\ IsTrigger
    /\ requested = ZeroTime
    /\ Len(broadcasts) = 1
    /\ broadcasts[1].launchTime = minLaunchTime
    /\ minLaunchTime <= maxLaunchTime

\* C15 as stated: a step of a call taken after its ctx was cancelled ends the
\* call with the cancellation error, and writes or deletes no file and sets
\* neither genesisHash nor isInitialized.
C15_Original ==
    [][ctxDone =>
          /\ (cpc # "idle" /\ ctrace' # ctrace) =>
                /\ cpc' = "idle"
                /\ cret'.kind = "context canceled"
                /\ genesisFile' = genesisFile
                /\ genesisHash' = genesisHash
                /\ isInitialized' = isInitialized
          /\ (npc # "idle" /\ ntrace' # ntrace) =>
                /\ npc' = "idle"
                /\ nret'.kind = "context canceled"]_vars

Count(seq, x) == Cardinality({i \in 1..Len(seq) : seq[i] = x})
Last(seq) == seq[Len(seq)]

\* C16: a call queries the parameters at most once, hands at most one message
\* to BroadcastTx and fetches the remote genesis at most once; a call that ended
\* at one of these steps returned the step's error.
C16_NoRetry ==
    /\ Count(ntrace, "params") <= 1
    /\ Count(ntrace, "broadcast") <= 1
    /\ Len(broadcasts) <= 1
    /\ Count(ctrace, "fetch") <= 1
    /\ (npc = "idle" /\ ntrace # <<>>) =>
          /\ Last(ntrace) = "params" => nret = Err("params query failed", <<>>)
          /\ Last(ntrace) = "broadcast" => nret = Err("broadcast failed", <<>>)
    /\ (cpc = "idle" /\ ctrace # <<>> /\ Last(ctrace) = "fetch") =>
          cret.kind \in {"fetch failed", "genesis from URL is invalid"}
    /\ nret.kind \in {"params query failed", "broadcast failed"} => npc = "idle"
    /\ cret.kind = "fetch failed" => cpc = "idle"

\* a TriggerLaunch returned the error of its only broadcast
C16_Witness ==
    /\ IsTrigger
    /\ npc = "idle"
    /\ nret = Err("broadcast failed", <<>>)
    /\ Count(ntrace, "broadcast") = 1

IsPrefix(s, t) == Len(s) <= Len(t) /\ \A i \in 1..Len(s) : s[i] = t[i]
TriggerOrder == <<"start", "params", "min", "max", "address", "validate", "broadcast", "decode">>
RevertOrder == <<"revert", "address", "broadcast", "reset">>
InitOrder ==
    <<"home", "rmhome", "build", "init", "genesispath", "rmgenesis">>
    \o (IF genesisURL # "" THEN <<"fetch", "write">> ELSE <<"commands", "cmdinit">>)
    \o <<"checkcommands", "checkpath", "read", "parse", "validategenesis">>
\* the step at which each error is returned
NetworkStepErrors ==
    {<<"params", "params query failed">>, <<"address", "address unavailable">>,
     <<"validate", "lower than minimum">>, <<"validate", "bigger than maximum">>,
     <<"broadcast", "broadcast failed">>, <<"decode", "decode failed">>,
     <<"reset", "reset genesis time failed">>}
ChainStepErrors ==
    {<<"home", "home failed">>, <<"rmhome", "remove home failed">>, <<"build", "build failed">>,
     <<"init", "init failed">>, <<"genesispath", "genesis path failed">>,
     <<"rmgenesis", "remove genesis failed">>, <<"fetch", "fetch failed">>,
     <<"fetch", "genesis from URL is invalid">>, <<"write", "write failed">>,
     <<"commands", "commands failed">>, <<"cmdinit", "cmd init failed">>,
     <<"checkcommands", "commands failed">>, <<"checkpath", "genesis path failed">>,
     <<"read", "read failed">>, <<"parse", "parse failed">>, <<"parse", GentxError.kind>>,
     <<"validategenesis", "validate-genesis failed">>}

\* C17: the steps of a call run in the order of the code, each only after the
\* one before it succeeded: the steps executed so far are a prefix of that
\* order, a call that returned an error executed nothing after the failing
\* step, and a call that returned nil executed them all.
C17_StepOrder ==
    /\ IsPrefix(ntrace, TriggerOrder) \/ IsPrefix(ntrace, RevertOrder)
    /\ IsPrefix(ctrace, InitOrder)
    /\ (npc = "idle" /\ ntrace # <<>>) =>
          IF nret = Nil THEN ntrace \in {TriggerOrder, RevertOrder}
          ELSE <<Last(ntrace), nret.kind>> \in NetworkStepErrors
    /\ (cpc = "idle" /\ ctrace # <<>>) =>
          IF cret = Nil THEN ctrace = InitOrder
          ELSE <<Last(ctrace), cret.kind>> \in ChainStepErrors
    /\ (npc # "idle" /\ ntrace # <<>>) => nret = Pending
    /\ (cpc # "idle" /\ ctrace # <<>>) => cret = Pending

\* an Init with a remote source ran every step and returned nil
C17_Witness ==
    /\ InitSucceeded
    /\ genesisURL # ""
    /\ ctrace = InitOrder
====
